---- MODULE Spec2Model ----
(***************************************************************************)
(* Model of pipelines/data_processing/nodes.py: the dtype normalizer       *)
(* (preprocess_dtypes), the field parsers (_is_true, _parse_percentage,    *)
(* _parse_money), the company / shuttle preprocessors and the model input  *)
(* builder (create_model_input_table).                                     *)
(*                                                                         *)
(* A table (pandas DataFrame) is a record                                  *)
(*   [columns : sequence of column names,                                  *)
(*    rows    : sequence of rows, a row a function column name -> cell,    *)
(*    dtype   : column name -> sequence of categories (<<>>: the column is *)
(*              not categorical)].                                         *)
(* A cell is a record [k, i, d, s]: k is the kind of the value ("int",     *)
(* "float", "str", "bool", "nan"), i / d its number (d = 1 but for a       *)
(* "float"), s its text.  NaN is the missing value.                        *)
(***************************************************************************)
EXTENDS Integers, Sequences, FiniteSets, TLC

VARIABLES data, data0, prev, calls, raised,
          x, parsed,
          companies, shuttles, reviews, tables0, returned,
          model_input_table

\* data      the table preprocess_dtypes works on, mutated in place
\* data0     that table as the pipeline loaded it
\* prev      the table the latest call of preprocess_dtypes was made on
\* calls     the calls made so far
\* raised    the exception of the latest call of preprocess_dtypes ("none")
\* x, parsed the argument and the result of _parse_percentage
\* companies, shuttles, reviews   the tables of the preprocessors and of
\*           create_model_input_table, mutated in place by the preprocessors
\* tables0   companies and shuttles as they were passed
\* returned  what preprocess_companies and preprocess_shuttles returned
\*           ("pending", "returned" or the exception) and the metadata record
\* model_input_table   the table create_model_input_table returned
vars == <<data, data0, prev, calls, raised, x, parsed,
          companies, shuttles, reviews, tables0, returned, model_input_table>>

(***************************************************************************)
(* Bounds of the model.                                                    *)
(***************************************************************************)
MaxRows == 1
MaxFrameRows == 2
MaxCalls == 2
MaxLen == 4
MaxTableRows == 2

(***************************************************************************)
(* Cells.                                                                  *)
(***************************************************************************)
RECURSIVE Gcd(_, _)
Gcd(a, b) == IF b = 0 THEN a ELSE Gcd(b, a % b)

\* A float is the fraction i / d in lowest terms, so that equal numbers are
\* equal cells; text is a string, or a sequence of one-character strings where
\* the program works on the characters.
IntV(n) == [k |-> "int", i |-> n, d |-> 1, s |-> ""]
FloatV(n, den) ==
    [k |-> "float", i |-> n \div Gcd(n, den), d |-> den \div Gcd(n, den), s |-> ""]
StrV(t) == [k |-> "str", i |-> 0, d |-> 1, s |-> t]
BoolV(b) == [k |-> "bool", i |-> IF b THEN 1 ELSE 0, d |-> 1, s |-> ""]
NaN == [k |-> "nan", i |-> 0, d |-> 1, s |-> ""]

IsInteger(v) == v.k = "int"

(***************************************************************************)
(* Tables.                                                                 *)
(***************************************************************************)
Range(q) == {q[j] : j \in 1..Len(q)}

Has(t, c) == c \in Range(t.columns)

Column(t, c) == [j \in 1..Len(t.rows) |-> t.rows[j][c]]

NoCategories == <<>>

\* Mutant of SetItem: the column is dropped and added again, at the end.
SetItem_moved(t, c, values, categories) ==
    [columns |-> Append(SelectSeq(t.columns, LAMBDA d : d # c), c),
     rows |-> [j \in 1..Len(t.rows) |->
                  [d \in Range(t.columns) \cup {c} |->
                      IF d = c THEN values[j] ELSE t.rows[j][d]]],
     dtype |-> [d \in Range(t.columns) \cup {c} |->
                  IF d = c THEN categories ELSE t.dtype[d]]]

\* data[c] = values, values a sequence as long as the table, categories the
\* categories of a Categorical (NoCategories otherwise).  An existing column
\* keeps its position, a new one is appended.
SetItem(t, c, values, categories) ==
    [columns |-> IF Has(t, c) THEN t.columns ELSE Append(t.columns, c),
     rows |-> [j \in 1..Len(t.rows) |->
                  [d \in Range(t.columns) \cup {c} |->
                      IF d = c THEN values[j] ELSE t.rows[j][d]]],
     dtype |-> [d \in Range(t.columns) \cup {c} |->
                  IF d = c THEN categories ELSE t.dtype[d]]]

(***************************************************************************)
(* preprocess_dtypes.                                                      *)
(***************************************************************************)
\* A dict literal, in insertion order: a sequence of <<key, value>>.
sex_mapping == << <<1, StrV("Male")>>, <<2, StrV("Female")>> >>

sex_categories == << StrV("Male"), StrV("Female") >>

\* Mutants of education_mapping: no entry for code 0, and codes 5 and 6 given
\* one label.
education_mapping_no_zero ==
    << <<1, StrV("GraduateSchool")>>, <<2, StrV("University")>>,
       <<3, StrV("HighSchool")>>, <<4, StrV("Others")>>,
       <<5, StrV("Unknown-5")>>, <<6, StrV("Unknown-6")>> >>

education_mapping_collapsed ==
    << <<1, StrV("GraduateSchool")>>, <<2, StrV("University")>>,
       <<3, StrV("HighSchool")>>, <<4, StrV("Others")>>,
       <<5, StrV("Unknown")>>, <<6, StrV("Unknown")>>,
       <<0, StrV("MISSING")>> >>

education_mapping ==
    << <<1, StrV("GraduateSchool")>>, <<2, StrV("University")>>,
       <<3, StrV("HighSchool")>>, <<4, StrV("Others")>>,
       <<5, StrV("Unknown-5")>>, <<6, StrV("Unknown-6")>>,
       <<0, StrV("MISSING")>> >>

marriage_mapping ==
    << <<1, StrV("Married")>>, <<2, StrV("Single")>>, <<3, StrV("Divorced")>>,
       <<0, StrV("MISSING")>> >>

\* dict.values()
Values(mapping) == [j \in 1..Len(mapping) |-> mapping[j][2]]

\* v == key, as Series.replace compares: an int by value, a float by value
\* (1.0 == 1); a string, a bool or NaN equals no integer key.
Matches(v, key) ==
    \/ v.k = "int" /\ v.i = key
    \/ v.k = "float" /\ v.i = key * v.d

\* Series.replace(mapping): a value equal to a key becomes that key's value,
\* every other value is left as it is.
ReplaceValue(v, mapping) ==
    IF \E j \in 1..Len(mapping) : Matches(v, mapping[j][1])
    THEN mapping[CHOOSE j \in 1..Len(mapping) : Matches(v, mapping[j][1])][2]
    ELSE v

Replace(series, mapping) ==
    [j \in 1..Len(series) |-> ReplaceValue(series[j], mapping)]

\* Mutants of CategoricalValue: the value kept when it is no category, and the
\* integer code of the category (Categorical(...).codes, -1 for no category).
CategoricalValue_keep(v, categories) == v

CategoricalValue_codes(v, categories) ==
    IF v \in Range(categories)
    THEN IntV((CHOOSE j \in 1..Len(categories) : categories[j] = v) - 1)
    ELSE IntV(-1)

\* pd.Categorical(values, categories=categories): a value that is not one of
\* the categories becomes NaN.
CategoricalValue(v, categories) ==
    IF v \in Range(categories) THEN v ELSE NaN

Categorical(series, categories) ==
    [j \in 1..Len(series) |-> CategoricalValue(series[j], categories)]

\* One column assignment data[c] = pd.Categorical(data[c].replace(m), cats).
Relabel(t, c, mapping, categories) ==
    SetItem(t, c, Categorical(Replace(Column(t, c), mapping), categories),
            categories)

\* Mutant of preprocess_dtypes: an absent column is skipped.
RelabelIfPresent(t, c, mapping, categories) ==
    IF Has(t, c) THEN Relabel(t, c, mapping, categories) ELSE t

preprocess_dtypes_skip(t) ==
    [data |-> RelabelIfPresent(
                 RelabelIfPresent(
                    RelabelIfPresent(t, "SEX", sex_mapping, sex_categories),
                    "EDUCATION", education_mapping, Values(education_mapping)),
                 "MARRIAGE", marriage_mapping, Values(marriage_mapping)),
     raised |-> "none"]

\* The whole function: the three assignments in order, the table mutated in
\* place; data[c] of an absent column raises KeyError there.
preprocess_dtypes(t) ==
    IF ~Has(t, "SEX") THEN [data |-> t, raised |-> "KeyError"]
    ELSE LET t1 == Relabel(t, "SEX", sex_mapping, sex_categories) IN
      IF ~Has(t1, "EDUCATION") THEN [data |-> t1, raised |-> "KeyError"]
      ELSE LET t2 == Relabel(t1, "EDUCATION", education_mapping,
                             Values(education_mapping)) IN
        IF ~Has(t2, "MARRIAGE") THEN [data |-> t2, raised |-> "KeyError"]
        ELSE [data |-> Relabel(t2, "MARRIAGE", marriage_mapping,
                               Values(marriage_mapping)),
              raised |-> "none"]

(***************************************************************************)
(* Input tables of the dtype normalizer.                                   *)
(***************************************************************************)
SexIn == {IntV(0), IntV(1), IntV(2), IntV(3), FloatV(10, 10), FloatV(15, 10), StrV("abc")}

EducationIn == {IntV(c) : c \in 0..7} \cup {StrV("1")}

MarriageIn == {IntV(c) : c \in 0..4} \cup {NaN}

FullLayout == <<"ID", "SEX", "EDUCATION", "MARRIAGE", "AGE">>

Layouts == { FullLayout,
             <<"MARRIAGE", "ID", "SEX", "AGE", "EDUCATION">>,
             <<"ID", "EDUCATION", "MARRIAGE", "AGE">>,
             <<"ID", "SEX", "MARRIAGE", "AGE">>,
             <<"SEX", "EDUCATION", "ID", "AGE">> }

RowsOver(layout, ids, sexes, educations, marriages) ==
    { [c \in Range(layout) |->
         CASE c = "ID" -> id
           [] c = "SEX" -> sx
           [] c = "EDUCATION" -> ed
           [] c = "MARRIAGE" -> ma
           [] OTHER -> IntV(30)] :
      id \in ids, sx \in sexes, ed \in educations, ma \in marriages }

SeqsUpTo(S, n) == UNION {[1..m -> S] : m \in 0..n}

RawTable(layout, rows) ==
    [columns |-> layout, rows |-> rows,
     dtype |-> [c \in Range(layout) |-> NoCategories]]

EmptyTable == [columns |-> <<>>, rows |-> <<>>, dtype |-> <<>>]

DtypeIdle ==
    /\ data = EmptyTable /\ data0 = EmptyTable /\ prev = EmptyTable
    /\ calls = 0

ParseIdle == x = <<>> /\ parsed = [raised |-> "pending", value |-> <<>>]

TablesIdle ==
    /\ companies = EmptyTable /\ shuttles = EmptyTable /\ reviews = EmptyTable
    /\ tables0 = [companies |-> EmptyTable, shuttles |-> EmptyTable]
    /\ returned = [companies |-> "pending", shuttles |-> "pending",
                   metadata |-> <<>>]
    /\ model_input_table = EmptyTable

InitDtypes ==
    /\ \E rows \in SeqsUpTo(RowsOver(FullLayout, {IntV(101)}, SexIn, EducationIn,
                                     MarriageIn), MaxRows) :
          data = RawTable(FullLayout, rows)
    /\ data0 = data
    /\ prev = data
    /\ calls = 0
    /\ raised = "none"
    /\ ParseIdle /\ TablesIdle

InitFrame ==
    /\ \E layout \in Layouts :
         \E rows \in SeqsUpTo(RowsOver(layout, {IntV(101), IntV(102)},
                                       {IntV(1), IntV(3), FloatV(15, 10)},
                                       {IntV(5), IntV(7)},
                                       {IntV(0), StrV("x")}), MaxFrameRows) :
            data = RawTable(layout, rows)
    /\ data0 = data
    /\ prev = data
    /\ calls = 0
    /\ raised = "none"
    /\ ParseIdle /\ TablesIdle

\* A node of the pipeline calls preprocess_dtypes on the table; a second call
\* is made on the table the first one returned.
PreprocessDtypes ==
    /\ calls < MaxCalls
    /\ raised = "none"
    /\ LET r == preprocess_dtypes(data) IN
         /\ data' = r.data
         /\ raised' = r.raised
    /\ prev' = data
    /\ calls' = calls + 1
    /\ UNCHANGED <<data0, x, parsed, companies, shuttles, reviews, tables0,
                   returned, model_input_table>>

NextDtypes == PreprocessDtypes

SpecDtypes == InitDtypes /\ [][NextDtypes]_vars

SpecFrame == InitFrame /\ [][NextDtypes]_vars

(***************************************************************************)
(* Field parsers.  The text of a cell they read is a sequence of           *)
(* one-character strings.                                                  *)
(***************************************************************************)
Digits == {"0", "1", "2", "3", "4", "5", "6", "7", "8", "9"}

DigitValue(c) ==
    CASE c = "0" -> 0 [] c = "1" -> 1 [] c = "2" -> 2 [] c = "3" -> 3
      [] c = "4" -> 4 [] c = "5" -> 5 [] c = "6" -> 6 [] c = "7" -> 7
      [] c = "8" -> 8 [] c = "9" -> 9

RECURSIVE Pow10(_)
Pow10(n) == IF n = 0 THEN 1 ELSE 10 * Pow10(n - 1)

RECURSIVE DigitsNumber(_)
DigitsNumber(t) ==
    IF t = <<>> THEN 0
    ELSE 10 * DigitsNumber(SubSeq(t, 1, Len(t) - 1)) + DigitValue(t[Len(t)])

\* Mutant of StrReplace: only a pattern at the end of the text is removed.
StrReplace_trailing(t, pat) ==
    IF t # <<>> /\ t[Len(t)] = pat THEN SubSeq(t, 1, Len(t) - 1) ELSE t

\* str.replace(pat, "") of one text, pat one literal character: every
\* occurrence of pat is removed.
StrReplace(t, pat) == SelectSeq(t, LAMBDA c : c # pat)

\* Series.str.replace(pat, ""): the texts replaced, a missing value kept.
str_replace(series, pat) ==
    [j \in 1..Len(series) |->
        IF series[j].k = "str" THEN StrV(StrReplace(series[j].s, pat))
        ELSE series[j]]

\* float(text) accepts, of the texts over digits, ".", "%", "$", "," and
\* letters: digits with at most one "." and at least one digit.
IsFloatLiteral(t) ==
    /\ \A j \in 1..Len(t) : t[j] \in Digits \cup {"."}
    /\ Cardinality({j \in 1..Len(t) : t[j] = "."}) <= 1
    /\ \E j \in 1..Len(t) : t[j] \in Digits

FractionDigits(t) ==
    IF \E j \in 1..Len(t) : t[j] = "."
    THEN Len(t) - (CHOOSE j \in 1..Len(t) : t[j] = ".")
    ELSE 0

ToFloat(t) ==
    FloatV(DigitsNumber(SelectSeq(t, LAMBDA c : c # ".")), Pow10(FractionDigits(t)))

\* Series.astype(float): ValueError when one text is no float literal, and
\* then no value is converted.
astype_float(series) ==
    IF \E j \in 1..Len(series) :
          series[j].k = "str" /\ ~IsFloatLiteral(series[j].s)
    THEN [raised |-> "ValueError", value |-> <<>>]
    ELSE [raised |-> "none",
          value |-> [j \in 1..Len(series) |->
                       CASE series[j].k = "str" -> ToFloat(series[j].s)
                         [] series[j].k = "int" -> FloatV(series[j].i, 1)
                         [] series[j].k = "bool" -> FloatV(series[j].i, 1)
                         [] OTHER -> series[j]]]

Divide(v, n) == IF v.k = "float" THEN FloatV(v.i, v.d * n) ELSE v

_is_true(series) ==
    [j \in 1..Len(series) |-> BoolV(series[j] = StrV(<<"t">>))]

_parse_percentage(series) ==
    LET r == astype_float(str_replace(series, "%")) IN
      IF r.raised # "none" THEN r
      ELSE [raised |-> "none",
            value |-> [j \in 1..Len(r.value) |-> Divide(r.value[j], 100)]]

_parse_money(series) ==
    astype_float(str_replace(str_replace(series, "$"), ","))

(***************************************************************************)
(* The percentage parser on a series of one text.                          *)
(***************************************************************************)
Alphabet == {"0", "1", "5", "8", "%", ".", "x"}

Pending == [raised |-> "pending", value |-> <<>>]

InitParse ==
    /\ \E t \in SeqsUpTo(Alphabet, MaxLen) : x = <<StrV(t)>>
    /\ parsed = Pending
    /\ raised = "none"
    /\ DtypeIdle /\ TablesIdle

ParsePercentage ==
    /\ parsed = Pending
    /\ parsed' = _parse_percentage(x)
    /\ UNCHANGED <<data, data0, prev, calls, raised, x, companies, shuttles,
                   reviews, tables0, returned, model_input_table>>

SpecParse == InitParse /\ [][ParsePercentage]_vars

(***************************************************************************)
(* preprocess_companies and preprocess_shuttles.                           *)
(***************************************************************************)
\* Mutant of preprocess_companies: the rating is parsed before any column is
\* assigned.
preprocess_companies_parse_first(t) ==
    LET r == _parse_percentage(Column(t, "company_rating")) IN
      IF r.raised # "none"
      THEN [table |-> t, raised |-> r.raised, metadata |-> <<>>]
      ELSE LET t2 == SetItem(SetItem(t, "iata_approved",
                                     _is_true(Column(t, "iata_approved")),
                                     NoCategories),
                             "company_rating", r.value, NoCategories) IN
        [table |-> t2, raised |-> "none",
         metadata |-> [columns |-> t2.columns, data_type |-> "companies"]]

\* The column assignments in order, on the table itself; the metadata record
\* is built from the table as returned.
preprocess_companies(t) ==
    LET t1 == SetItem(t, "iata_approved", _is_true(Column(t, "iata_approved")),
                      NoCategories)
        r == _parse_percentage(Column(t1, "company_rating")) IN
      IF r.raised # "none"
      THEN [table |-> t1, raised |-> r.raised, metadata |-> <<>>]
      ELSE LET t2 == SetItem(t1, "company_rating", r.value, NoCategories) IN
        [table |-> t2, raised |-> "none",
         metadata |-> [columns |-> t2.columns, data_type |-> "companies"]]

preprocess_shuttles(t) ==
    LET t1 == SetItem(t, "d_check_complete",
                      _is_true(Column(t, "d_check_complete")), NoCategories)
        t2 == SetItem(t1, "moon_clearance_complete",
                      _is_true(Column(t1, "moon_clearance_complete")),
                      NoCategories)
        r == _parse_money(Column(t2, "price")) IN
      IF r.raised # "none"
      THEN [table |-> t2, raised |-> r.raised]
      ELSE [table |-> SetItem(t2, "price", r.value, NoCategories),
            raised |-> "none"]

CompaniesLayout == <<"id", "company_rating", "iata_approved">>

ShuttlesLayout ==
    <<"id", "d_check_complete", "moon_clearance_complete", "price", "company_id">>

Flags == {StrV(<<"t">>), StrV(<<"f">>)}

Ratings == { StrV(<<"8", "5", "%">>), StrV(<<"8", "%", "5">>), StrV(<<"x">>) }

Prices == { StrV(<<"$", "1", ",", "2", "0", "0", ".", "5", "0">>),
            StrV(<<"$", "x">>) }

RawCompanies ==
    { [c \in Range(CompaniesLayout) |->
         CASE c = "iata_approved" -> fl
           [] c = "company_rating" -> ra
           [] OTHER -> IntV(10)] : fl \in Flags, ra \in Ratings }

RawShuttles ==
    { [c \in Range(ShuttlesLayout) |->
         CASE c = "d_check_complete" -> fl
           [] c = "moon_clearance_complete" -> StrV(<<>>)
           [] c = "price" -> pr
           [] c = "id" -> IntV(1)
           [] OTHER -> IntV(10)] : fl \in Flags, pr \in Prices }

InitPreprocess ==
    /\ \E rows \in SeqsUpTo(RawCompanies, MaxTableRows) :
          companies = RawTable(CompaniesLayout, rows)
    /\ \E rows \in SeqsUpTo(RawShuttles, MaxTableRows) :
          shuttles = RawTable(ShuttlesLayout, rows)
    /\ tables0 = [companies |-> companies, shuttles |-> shuttles]
    /\ returned = [companies |-> "pending", shuttles |-> "pending",
                   metadata |-> <<>>]
    /\ reviews = EmptyTable /\ model_input_table = EmptyTable
    /\ raised = "none"
    /\ DtypeIdle /\ ParseIdle

PreprocessCompanies ==
    /\ returned.companies = "pending"
    /\ LET r == preprocess_companies(companies) IN
         /\ companies' = r.table
         /\ returned' = [returned EXCEPT
                            !.companies = IF r.raised = "none" THEN "returned"
                                          ELSE r.raised,
                            !.metadata = r.metadata]
    /\ UNCHANGED <<data, data0, prev, calls, raised, x, parsed, shuttles,
                   reviews, tables0, model_input_table>>

PreprocessShuttles ==
    /\ returned.shuttles = "pending"
    /\ LET r == preprocess_shuttles(shuttles) IN
         /\ shuttles' = r.table
         /\ returned' = [returned EXCEPT
                            !.shuttles = IF r.raised = "none" THEN "returned"
                                         ELSE r.raised]
    /\ UNCHANGED <<data, data0, prev, calls, raised, x, parsed, companies,
                   reviews, tables0, model_input_table>>

NextPreprocess == PreprocessCompanies \/ PreprocessShuttles

SpecPreprocess == InitPreprocess /\ [][NextPreprocess]_vars

(***************************************************************************)
(* create_model_input_table.  The column names of the three tables are     *)
(* disjoint but for id, which shuttles lose before companies bring theirs. *)
(***************************************************************************)
\* Two join keys are equal: numbers by value, and NaN equals NaN (pandas
\* matches missing keys with each other).
KeyEq(a, b) ==
    IF a.k \in {"int", "float"} /\ b.k \in {"int", "float"}
    THEN a.i * b.d = b.i * a.d
    ELSE a = b

RECURSIVE Flatten(_)
Flatten(qs) == IF qs = <<>> THEN <<>> ELSE Head(qs) \o Flatten(Tail(qs))

JoinRow(l, r) ==
    [c \in DOMAIN l \cup DOMAIN r |-> IF c \in DOMAIN l THEN l[c] ELSE r[c]]

\* Mutant of Merge: a left row is joined to its first match only.
Merge_first(left, right, left_on, right_on) ==
    [columns |-> left.columns \o right.columns,
     rows |-> Flatten([j \in 1..Len(left.rows) |->
                 LET m == SelectSeq(right.rows,
                             LAMBDA r : KeyEq(left.rows[j][left_on], r[right_on]))
                 IN IF m = <<>> THEN <<>> ELSE <<JoinRow(left.rows[j], m[1])>>]),
     dtype |-> [c \in Range(left.columns) \cup Range(right.columns) |->
                  IF c \in Range(left.columns) THEN left.dtype[c]
                  ELSE right.dtype[c]]]

\* left.merge(right, left_on=, right_on=): the inner join, in the order of
\* the left rows and, for one left row, of the right rows.
Merge(left, right, left_on, right_on) ==
    [columns |-> left.columns \o right.columns,
     rows |-> Flatten([j \in 1..Len(left.rows) |->
                 LET m == SelectSeq(right.rows,
                             LAMBDA r : KeyEq(left.rows[j][left_on], r[right_on]))
                 IN [n \in 1..Len(m) |-> JoinRow(left.rows[j], m[n])]]),
     dtype |-> [c \in Range(left.columns) \cup Range(right.columns) |->
                  IF c \in Range(left.columns) THEN left.dtype[c]
                  ELSE right.dtype[c]]]

\* t.drop(c, axis=1)
Drop(t, c) ==
    [columns |-> SelectSeq(t.columns, LAMBDA d : d # c),
     rows |-> [j \in 1..Len(t.rows) |->
                 [d \in Range(t.columns) \ {c} |-> t.rows[j][d]]],
     dtype |-> [d \in Range(t.columns) \ {c} |-> t.dtype[d]]]

\* Mutant of DropNa: no row is dropped.
DropNa_none(t) == t

\* t.dropna(): the rows without a missing value.
DropNa(t) ==
    [t EXCEPT !.rows = SelectSeq(t.rows,
                          LAMBDA r : \A c \in DOMAIN r : r[c] # NaN)]

create_model_input_table(sh, co, re) ==
    LET rated_shuttles == Drop(Merge(sh, re, "id", "shuttle_id"), "id") IN
      DropNa(Merge(rated_shuttles, co, "company_id", "id"))

JoinShuttlesLayout == <<"id", "company_id", "price">>

ReviewsLayout == <<"shuttle_id", "review_scores_rating">>

JoinCompaniesLayout == <<"id", "company_rating">>

JoinShuttles ==
    { [c \in Range(JoinShuttlesLayout) |->
         CASE c = "id" -> id [] c = "company_id" -> co
           [] OTHER -> FloatV(100, 1)] :
      id \in {IntV(1), IntV(2)}, co \in {IntV(10), NaN} }

JoinReviews ==
    { [c \in Range(ReviewsLayout) |->
         CASE c = "shuttle_id" -> id [] OTHER -> ra] :
      id \in {IntV(1), IntV(2)}, ra \in {IntV(5), NaN} }

JoinCompanies ==
    { [c \in Range(JoinCompaniesLayout) |->
         CASE c = "id" -> id [] OTHER -> FloatV(85, 100)] :
      id \in {IntV(10), IntV(11), NaN} }

InitJoin ==
    /\ \E rows \in SeqsUpTo(JoinShuttles, MaxTableRows) :
          shuttles = RawTable(JoinShuttlesLayout, rows)
    /\ \E rows \in SeqsUpTo(JoinReviews, MaxTableRows) :
          reviews = RawTable(ReviewsLayout, rows)
    /\ \E rows \in SeqsUpTo(JoinCompanies, MaxTableRows) :
          companies = RawTable(JoinCompaniesLayout, rows)
    /\ tables0 = [companies |-> companies, shuttles |-> shuttles]
    /\ returned = [companies |-> "returned", shuttles |-> "returned",
                   metadata |-> <<>>]
    /\ model_input_table = EmptyTable
    /\ data = EmptyTable /\ data0 = EmptyTable /\ prev = EmptyTable
    /\ calls = 0
    /\ raised = "none"
    /\ ParseIdle

CreateModelInputTable ==
    /\ calls = 0
    /\ model_input_table' = create_model_input_table(shuttles, companies, reviews)
    /\ calls' = 1
    /\ UNCHANGED <<data, data0, prev, raised, x, parsed, companies, shuttles,
                   reviews, tables0, returned>>

SpecJoin == InitJoin /\ [][CreateModelInputTable]_vars

(***************************************************************************)
(* Claims about preprocess_dtypes.  After the first call data0 is the      *)
(* input table and data the output; after any call prev is the table the   *)
(* call was made on.                                                       *)
(***************************************************************************)
Returned1 == calls = 1 /\ raised = "none"

RowIds == 1..Len(data0.rows)

In(j, c) == data0.rows[j][c]

Out(j, c) == data.rows[j][c]

Mapped == {"SEX", "EDUCATION", "MARRIAGE"}

C2_NoCodeDropped ==
    Returned1 =>
      \A j \in RowIds : \A c \in Mapped :
         IsInteger(In(j, c)) => Out(j, c).k = "str"

Domain(c) ==
    CASE c = "SEX" -> 1..2
      [] c = "EDUCATION" -> 0..6
      [] c = "MARRIAGE" -> 0..3

\* C2 amended: a code of the column's mapping (SEX 1..2, EDUCATION 0..6,
\* MARRIAGE 0..3) yields one label, a category of the column, and is never
\* missing; an integer code outside the mapping becomes the missing value.
C2_ClosedOnMapping ==
    Returned1 =>
      \A j \in RowIds : \A c \in Mapped :
         IsInteger(In(j, c)) =>
            IF In(j, c).i \in Domain(c)
            THEN Out(j, c).k = "str" /\ Out(j, c) \in Range(data.dtype[c])
            ELSE Out(j, c) = NaN

C2_Witness ==
    /\ Returned1
    /\ \E j \in RowIds :
          /\ In(j, "EDUCATION") = IntV(0) /\ Out(j, "EDUCATION") = StrV("MISSING")
          /\ In(j, "MARRIAGE") = IntV(4) /\ Out(j, "MARRIAGE") = NaN

EducationLabels ==
    << "MISSING", "GraduateSchool", "University", "HighSchool", "Others",
       "Unknown-5", "Unknown-6" >>

MarriageLabels == << "MISSING", "Married", "Single", "Divorced" >>

\* C3: EDUCATION 1,2,3,4,5,6,0 and MARRIAGE 1,2,3,0 become the labels listed,
\* distinct codes get distinct labels, and each label is a category of its
\* column.
C3_EducationMarriageLabels ==
    Returned1 =>
      /\ \A j \in RowIds : \A c \in 0..6 :
            In(j, "EDUCATION") = IntV(c) =>
               /\ Out(j, "EDUCATION") = StrV(EducationLabels[c + 1])
               /\ Out(j, "EDUCATION") \in Range(data.dtype["EDUCATION"])
      /\ \A j \in RowIds : \A c \in 0..3 :
            In(j, "MARRIAGE") = IntV(c) =>
               /\ Out(j, "MARRIAGE") = StrV(MarriageLabels[c + 1])
               /\ Out(j, "MARRIAGE") \in Range(data.dtype["MARRIAGE"])
      /\ \A c, d \in 0..6 : c # d => EducationLabels[c + 1] # EducationLabels[d + 1]
      /\ \A c, d \in 0..3 : c # d => MarriageLabels[c + 1] # MarriageLabels[d + 1]
      /\ Len(data.dtype["EDUCATION"]) = 7
      /\ Len(data.dtype["MARRIAGE"]) = 4

C3_Witness ==
    /\ Returned1
    /\ \E j \in RowIds :
          /\ In(j, "EDUCATION") = IntV(6) /\ Out(j, "EDUCATION") = StrV("Unknown-6")
          /\ In(j, "MARRIAGE") = IntV(3) /\ Out(j, "MARRIAGE") = StrV("Divorced")

\* C4: a second call on the table the first call returned changes no cell.
C4_Idempotent ==
    (calls >= 2 /\ raised = "none") => data = prev

C4_Witness ==
    /\ calls = 2 /\ raised = "none"
    /\ data # data0
    /\ \E j \in RowIds :
          /\ Out(j, "SEX") = StrV("Female")
          /\ Out(j, "EDUCATION") = NaN
          /\ Out(j, "MARRIAGE") = StrV("MISSING")

Absent == {c \in Mapped : ~Has(data0, c)}

NonInteger ==
    {c \in Mapped \ Absent : \E j \in RowIds : ~IsInteger(In(j, c))}

C5_WitnessAbsent ==
    calls = 1 /\ raised = "KeyError" /\ Absent = {"EDUCATION"}

\* C6: the output has the rows of the input in the same order, the same
\* column names in the same order, and every cell outside SEX, EDUCATION and
\* MARRIAGE unchanged.
C6_Frame ==
    (calls >= 1 /\ raised = "none") =>
      /\ Len(data.rows) = Len(prev.rows)
      /\ data.columns = prev.columns
      /\ \A j \in 1..Len(prev.rows) :
            /\ DOMAIN data.rows[j] = DOMAIN prev.rows[j]
            /\ \A c \in Range(prev.columns) \ Mapped :
                  data.rows[j][c] = prev.rows[j][c]

C6_Witness ==
    /\ Returned1
    /\ data.columns # FullLayout
    /\ Len(data.rows) = 2
    /\ Out(1, "ID") = IntV(102) /\ Out(2, "ID") = IntV(101)
    /\ data # data0

(***************************************************************************)
(* Claims about the field parsers and the preprocessors.                   *)
(***************************************************************************)
\* A text that is a number: digits, with at most one "." among them.
Numeric(t) ==
    /\ t # <<>>
    /\ \E p \in 0..Len(t) :
          /\ p > 0 => t[p] = "." /\ Len(t) >= 2
          /\ \A j \in 1..Len(t) : j # p => t[j] \in Digits

\* The number a numeric text writes, divided by n, equals the cell v.
IsQuotient(v, t, n) ==
    LET p == IF \E j \in 1..Len(t) : t[j] = "."
             THEN CHOOSE j \in 1..Len(t) : t[j] = "." ELSE Len(t) IN
      v = FloatV(DigitsNumber(SelectSeq(t, LAMBDA c : c \in Digits)),
                 n * Pow10(Len(t) - p))

Agrees(t, stem) ==
    IF Numeric(stem)
    THEN parsed.raised = "none" /\ IsQuotient(parsed.value[1], stem, 100)
    ELSE parsed.raised = "ValueError"

\* C9 as stated: only a trailing "%" is stripped, the rest is cast and
\* divided by 100, and the call fails whenever the text without its trailing
\* "%" is not numeric.
C9_StripsTrailingOnly ==
    parsed # Pending =>
       LET t == x[1].s IN
         Agrees(t, IF t # <<>> /\ t[Len(t)] = "%"
                   THEN SubSeq(t, 1, Len(t) - 1) ELSE t)

\* C9 amended: every "%" of the text is removed, wherever it stands, the
\* rest is cast and divided by 100 ("85%" gives 0.85, "100%" gives 1.0), and
\* the call fails exactly when the text without its "%" characters is not
\* numeric.
C9_RemovesEveryPercent ==
    parsed # Pending =>
       LET t == x[1].s IN
         /\ Agrees(t, SelectSeq(t, LAMBDA c : c # "%"))
         /\ t = <<"8", "5", "%">> => parsed.value[1] = FloatV(85, 100)
         /\ t = <<"1", "0", "0", "%">> => parsed.value[1] = FloatV(1, 1)

C9_Witness ==
    /\ x[1].s = <<"8", "%", "5">>
    /\ parsed.raised = "none"
    /\ parsed.value[1] = FloatV(85, 100)

C9_WitnessFails ==
    /\ x[1].s = <<"8", "x", "%">>
    /\ parsed.raised = "ValueError"

AllOfKind(t, c, kind) == \A j \in 1..Len(t.rows) : t.rows[j][c].k = kind

Unparsable(t, c, strip) ==
    \E j \in 1..Len(t.rows) :
       ~Numeric(SelectSeq(t.rows[j][c].s, LAMBDA ch : ch \notin strip))

\* C8 as stated: a call either converts all its designated columns or fails
\* with none of them converted.
C8_NoPartialTransform ==
    /\ returned.companies \notin {"pending", "returned"}
          => companies = tables0.companies
    /\ returned.shuttles \notin {"pending", "returned"}
          => shuttles = tables0.shuttles
    /\ returned.companies = "returned"
          => /\ AllOfKind(companies, "iata_approved", "bool")
             /\ AllOfKind(companies, "company_rating", "float")
    /\ returned.shuttles = "returned"
          => /\ AllOfKind(shuttles, "d_check_complete", "bool")
             /\ AllOfKind(shuttles, "moon_clearance_complete", "bool")
             /\ AllOfKind(shuttles, "price", "float")

\* C8 amended: a cell that does not parse makes the call fail with that
\* error and return no table, and a call that returns has converted all its
\* designated columns; the failed call leaves the caller's table with the
\* numeric column as it was and the boolean-flag columns converted.
C8_FailurePropagates ==
    /\ returned.companies # "pending" =>
          IF Unparsable(tables0.companies, "company_rating", {"%"})
          THEN /\ returned.companies = "ValueError"
               /\ returned.metadata = <<>>
               /\ Column(companies, "company_rating")
                    = Column(tables0.companies, "company_rating")
               /\ AllOfKind(companies, "iata_approved", "bool")
          ELSE /\ returned.companies = "returned"
               /\ AllOfKind(companies, "iata_approved", "bool")
               /\ AllOfKind(companies, "company_rating", "float")
    /\ returned.shuttles # "pending" =>
          IF Unparsable(tables0.shuttles, "price", {"$", ","})
          THEN /\ returned.shuttles = "ValueError"
               /\ Column(shuttles, "price") = Column(tables0.shuttles, "price")
               /\ AllOfKind(shuttles, "d_check_complete", "bool")
               /\ AllOfKind(shuttles, "moon_clearance_complete", "bool")
          ELSE /\ returned.shuttles = "returned"
               /\ AllOfKind(shuttles, "d_check_complete", "bool")
               /\ AllOfKind(shuttles, "moon_clearance_complete", "bool")
               /\ AllOfKind(shuttles, "price", "float")

C8_Witness ==
    /\ returned.companies = "ValueError"
    /\ returned.shuttles = "ValueError"
    /\ Len(companies.rows) = 2
    /\ tables0.companies.rows[1]["company_rating"] = StrV(<<"8", "5", "%">>)
    /\ companies.rows[1]["company_rating"] = StrV(<<"8", "5", "%">>)
    /\ companies.rows[1]["iata_approved"] = BoolV(TRUE)
    /\ companies # tables0.companies
    /\ shuttles # tables0.shuttles

(***************************************************************************)
(* Claims about create_model_input_table.                                  *)
(***************************************************************************)
ShuttleColumns == {"company_id", "price"}

\* The output row o is built from shuttle s, review r and company c.
BuiltFrom(o, s, r, c) ==
    /\ r["shuttle_id"] = s["id"]
    /\ c["id"] = s["company_id"]
    /\ \A d \in ShuttleColumns : o[d] = s[d]
    /\ \A d \in DOMAIN r : o[d] = r[d]
    /\ \A d \in DOMAIN c : o[d] = c[d]

FromShuttle(o, s) ==
    /\ o["shuttle_id"] = s["id"]
    /\ \A d \in ShuttleColumns : o[d] = s[d]

\* C7: each output row is built from a shuttle, a review of that shuttle and
\* the company of that shuttle and has no missing value; a shuttle without a
\* review or without a company is in no output row; nothing is raised.
C7_InnerJoinNoMissing ==
    calls = 1 =>
      /\ raised = "none"
      /\ \A n \in 1..Len(model_input_table.rows) :
            LET o == model_input_table.rows[n] IN
              /\ \A d \in DOMAIN o : o[d] # NaN
              /\ \E s \in Range(shuttles.rows) : \E r \in Range(reviews.rows) :
                    \E c \in Range(companies.rows) : BuiltFrom(o, s, r, c)
      /\ \A s \in Range(shuttles.rows) :
            (\/ ~\E r \in Range(reviews.rows) : r["shuttle_id"] = s["id"]
             \/ ~\E c \in Range(companies.rows) : c["id"] = s["company_id"])
            => ~\E n \in 1..Len(model_input_table.rows) :
                   FromShuttle(model_input_table.rows[n], s)

C7_Witness ==
    /\ calls = 1
    /\ Len(shuttles.rows) = 2 /\ Len(model_input_table.rows) = 1
    /\ shuttles.rows[1]["company_id"] = NaN
    /\ \E c \in Range(companies.rows) : c["id"] = NaN
    /\ \E r \in Range(reviews.rows) : r["shuttle_id"] = shuttles.rows[1]["id"]
    /\ \E r \in Range(reviews.rows) : r["review_scores_rating"] = NaN

Count(q, P(_)) == Cardinality({n \in 1..Len(q) : P(q[n])})

NoMissing(t) == \A n \in 1..Len(t.rows) : \A d \in DOMAIN t.rows[n] : t.rows[n][d] # NaN

\* C10: without missing values in the inputs, the output rows of a shuttle
\* are as many as its reviews times its companies (counted over the shuttle
\* rows that are equal to it), the output keeps the id of companies and not
\* the id of shuttles.
C10_JoinMultiplicity ==
    (calls = 1 /\ NoMissing(shuttles) /\ NoMissing(reviews) /\ NoMissing(companies)) =>
      /\ \A s \in Range(shuttles.rows) :
            Count(model_input_table.rows, LAMBDA o : FromShuttle(o, s))
              = Count(shuttles.rows, LAMBDA s2 : s2 = s)
                * Count(reviews.rows, LAMBDA r : r["shuttle_id"] = s["id"])
                * Count(companies.rows, LAMBDA c : c["id"] = s["company_id"])
      /\ model_input_table.columns
           = <<"company_id", "price", "shuttle_id", "review_scores_rating",
               "id", "company_rating">>
      /\ \A n \in 1..Len(model_input_table.rows) :
            model_input_table.rows[n]["id"] = model_input_table.rows[n]["company_id"]

C10_Witness ==
    /\ calls = 1
    /\ NoMissing(shuttles) /\ NoMissing(reviews) /\ NoMissing(companies)
    /\ Len(shuttles.rows) = 1
    /\ Len(reviews.rows) = 2 /\ Len(companies.rows) = 2
    /\ Len(model_input_table.rows) = 4

====
